---- MODULE Spec2Model ----
(***************************************************************************)
(* Model of the portfolio backend (src/app.py): process start-up, the      *)
(* contact() handler of POST /api/contact with its relay session, and the  *)
(* smoke-test helper check_server_status (src/test_backend.py).            *)
(*                                                                         *)
(* Python str values are sequences of one-character strings, so that       *)
(* strip(), the `in` operator and the regular expression of validate_email *)
(* are computed character by character.                                    *)
(***************************************************************************)
EXTENDS Integers, Sequences, FiniteSets, TLC

\* ------------------------------------------------------------------ bounds
\* Number of requests in flight at once (each runs contact() in its own thread).
MaxCalls == 2
\* Longest e-mail value enumerated exhaustively over EmailAlphabet.
MaxEmailLen == 5
\* Largest value of the retries argument of check_server_status.
MaxRetries == 4

\* ----------------------------------------------------------- Python values
None_ == [t |-> "None"]
Str(s) == [t |-> "str", v |-> s]
PyInt(n) == [t |-> "int", v |-> n]
List(l) == [t |-> "list", v |-> l]
Dict(f) == [t |-> "dict", v |-> f]
Bool(b) == [t |-> "bool", v |-> b]
\* A request body that is not valid JSON.
InvalidJson == [t |-> "invalid"]
\* No request is sent on this connection.
NoRequest == [t |-> "norequest"]

Exc(kind, detail) == [kind |-> kind, detail |-> detail]

\* Python truthiness of the values that all([...]) is applied to.
Truthy(x) ==
    CASE x.t = "None" -> FALSE
      [] x.t = "str" -> x.v # <<>>
      [] x.t = "int" -> x.v # 0
      [] x.t = "bool" -> x.v
      [] OTHER -> TRUE

\* -------------------------------------------------------------- characters
Letters ==
    {"a", "b", "c", "d", "e", "f", "g", "h", "i", "j", "k", "l", "m",
     "n", "o", "p", "q", "r", "s", "t", "u", "v", "w", "x", "y", "z",
     "A", "B", "C", "D", "E", "F", "G", "H", "I", "J", "K", "L", "M",
     "N", "O", "P", "Q", "R", "S", "T", "U", "V", "W", "X", "Y", "Z"}
Digits == {"0", "1", "2", "3", "4", "5", "6", "7", "8", "9"}
\* [a-zA-Z0-9._%+-]
LocalChars == Letters \cup Digits \cup {".", "_", "%", "+", "-"}
\* [a-zA-Z0-9.-]
DomainChars == Letters \cup Digits \cup {".", "-"}
\* the characters str.strip() removes
Whitespace == {" ", "\t", "\n", "\r", "\f"}

\* -------------------------------------------------------------- validators
\* re.match(pattern, email): the pattern is matched from position 1; st is
\* the part of the pattern still to match from position i of s.  `$` matches
\* at the end of the string and just before a newline that ends the string.
RECURSIVE ReMatch(_, _, _)
ReMatch(s, i, st) ==
    LET more == i <= Len(s)
        atDollar == i = Len(s) + 1 \/ (i = Len(s) /\ s[i] = "\n")
    IN CASE st = "local1" ->
              more /\ s[i] \in LocalChars /\ ReMatch(s, i + 1, "local")
         [] st = "local" ->
              more /\ (\/ s[i] \in LocalChars /\ ReMatch(s, i + 1, "local")
                       \/ s[i] = "@" /\ ReMatch(s, i + 1, "domain1"))
         [] st = "domain1" ->
              more /\ s[i] \in DomainChars /\ ReMatch(s, i + 1, "domain")
         [] st = "domain" ->
              more /\ (\/ s[i] \in DomainChars /\ ReMatch(s, i + 1, "domain")
                       \/ s[i] = "." /\ ReMatch(s, i + 1, "tld1"))
         [] st = "tld1" ->
              more /\ s[i] \in Letters /\ ReMatch(s, i + 1, "tld2")
         [] st = "tld2" ->
              more /\ s[i] \in Letters /\ ReMatch(s, i + 1, "tld")
         [] st = "tld" ->
              \/ atDollar
              \/ more /\ s[i] \in Letters /\ ReMatch(s, i + 1, "tld")

\* mutant: the pattern without its closing `$`
validate_email_NoAnchor(email) ==
    \E k \in 1..Len(email) : ReMatch(SubSeq(email, 1, k), 1, "local1")

validate_email(email) == ReMatch(email, 1, "local1")

RECURSIVE lstrip(_)
lstrip(s) ==
    IF s # <<>> /\ Head(s) \in Whitespace THEN lstrip(Tail(s)) ELSE s

RECURSIVE rstrip(_)
rstrip(s) ==
    IF s # <<>> /\ s[Len(s)] \in Whitespace
    THEN rstrip(SubSeq(s, 1, Len(s) - 1))
    ELSE s

strip(s) == rstrip(lstrip(s))

\* mutant: sanitisation that keeps the surrounding whitespace
sanitize_input_NoStrip(text) == IF text.t # "str" THEN <<>> ELSE text.v

sanitize_input(text) == IF text.t # "str" THEN <<>> ELSE strip(text.v)

\* ------------------------------------------------------------------ inputs
Keys == {"name", "email", "subject", "message"}
\* required_fields, in the order the handler tests them
required_fields == <<"name", "email", "subject", "message">>
KeyChars ==
    [name |-> <<"n", "a", "m", "e">>,
     email |-> <<"e", "m", "a", "i", "l">>,
     subject |-> <<"s", "u", "b", "j", "e", "c", "t">>,
     message |-> <<"m", "e", "s", "s", "a", "g", "e">>]

S_Jane == <<"J", "a", "n", "e">>
S_Hi == <<"H", "i">>
S_Hello == <<"H", "e", "l", "l", "o", " ", "t", "h", "e", "r", "e">>
S_JaneMail ==
    <<"j", "a", "n", "e", "@", "e", "x", "a", "m", "p", "l", "e", ".", "c", "o", "m">>
S_AtBCo == <<"a", "@", "b", ".", "c", "o">>
S_AtBC == <<"a", "@", "b", ".", "c">>
S_AtB == <<"a", "@", "b">>
S_NotAnEmail == <<"n", "o", "t", "-", "a", "n", "-", "e", "m", "a", "i", "l">>

\* " hi ": a value that strip() shortens
Padded(s) == <<" ">> \o s \o <<"\n">>

GoodValue ==
    [name |-> S_Jane, email |-> S_JaneMail, subject |-> S_Hi, message |-> S_Hello]

\* the payload of test_contact_form / end-to-end scenario 1
GoodPayload == Dict([k \in Keys |-> Str(GoodValue[k])])

WithField(d, k, val) == Dict([d.v EXCEPT ![k] = val])
Without(d, k) == Dict([j \in (DOMAIN d.v) \ {k} |-> d.v[j]])

\* Requests of the start-up and concurrent specifications: one per outcome of
\* the validation.
CoreBodies ==
    {InvalidJson,
     Without(GoodPayload, "message"),
     WithField(GoodPayload, "name", Str(<<>>)),
     WithField(GoodPayload, "email", Str(S_AtBC)),
     GoodPayload}

EmailAlphabet == {"a", "1", ".", "@", "_", "\n"}
EnumeratedEmails == UNION {[1..n -> EmailAlphabet] : n \in 0..MaxEmailLen}
CuratedEmails ==
    {S_NotAnEmail, S_AtB, S_AtBC, S_AtBCo, S_JaneMail,
     Padded(S_AtBCo),
     S_AtBCo \o <<"\n", "x">>,
     S_AtBCo \o <<"!">>,
     <<"a", "@", "b", ".", "c", "1">>,
     <<"a", "_", "%", "+", "-", ".", "b", "@", "c", "-", "d", ".", "e", "f", ".", "G", "H">>,
     <<"a", "@", "b", "_", "c", ".", "d", "e">>,
     <<"a", "@", "@", "b", ".", "c", "o">>,
     <<"a", " ", "b", "@", "c", ".", "d", "e">>}

\* values a client may put under key k
FieldValues(k) ==
    {None_, PyInt(42), Str(<<>>), Str(<<" ", "\t">>), Str(GoodValue[k]),
     Str(Padded(GoodValue[k]))}
    \cup (IF k = "email" THEN {Str(S_AtBC)} ELSE {})
AllFieldValues == UNION {FieldValues(k) : k \in Keys}

StructuredBodies ==
    UNION {{Dict(f) : f \in {g \in [S -> AllFieldValues] :
                                 \A k \in S : g[k] \in FieldValues(k)}} :
           S \in SUBSET Keys}
EmailBodies ==
    {WithField(GoodPayload, "email", Str(e)) :
        e \in EnumeratedEmails \cup CuratedEmails}
NonObjectBodies ==
    {InvalidJson, None_, PyInt(42), List(<<>>),
     List([i \in 1..4 |-> Str(KeyChars[required_fields[i]])]),
     Str(S_Hello),
     Str(KeyChars["name"] \o KeyChars["email"] \o KeyChars["subject"]
           \o KeyChars["message"])}
ExtraKeyBody ==
    Dict([k \in Keys \cup {"phone"} |->
             IF k \in Keys THEN Str(GoodValue[k]) ELSE PyInt(42)])
WideBodies ==
    StructuredBodies \cup EmailBodies \cup NonObjectBodies \cup {ExtraKeyBody}

\* -------------------------------------------------------------- environment
OperatorAddress == Str(<<"operator@example.com">>)
OperatorPassword == Str(<<"app-password">>)
\* os.getenv gives None for an unset variable and "" for an empty one
EnvAddresses == {None_, Str(<<>>), OperatorAddress}
EnvPasswords == {None_, OperatorPassword}

ConnectErrors ==
    {Exc("ConnectionRefusedError", "[Errno 111] Connection refused"),
     Exc("SMTPConnectError", "(421, b'Service not available')")}
StartTlsErrors ==
    {Exc("SMTPNotSupportedError", "STARTTLS extension not supported by server.")}
LoginErrors ==
    {Exc("SMTPAuthenticationError", "(535, b'Username and Password not accepted')")}
SendErrors == {Exc("SMTPDataError", "(554, b'Transaction failed')")}
QuitError == Exc("SMTPResponseException", "(421, b'Closing')")
\* replies of the relay to QUIT: 221, a dropped connection, any other code
QuitReplies == {"221", "disconnected", "other"}

\* ------------------------------------------------------------------- state
VARIABLES
    dunder_name,     \* __name__ of app.py: "__main__" (python app.py) or "app" (imported)
    SENDER_EMAIL,    \* os.getenv('SENDER_EMAIL')
    EMAIL_PASSWORD,  \* os.getenv('EMAIL_PASSWORD')
    proc,            \* "loaded", "serving" or "exited"
    exit_code,       \* argument of exit(), None_ while running
    body,            \* per call: the request body
    pc,              \* per call: position in contact()
    data,            \* per call: request.get_json()
    fields,          \* per call: the sanitized name, email, subject, message
    msg,             \* per call: the MIMEMultipart message
    exc,             \* per call: the exception being propagated
    resp,            \* per call: the response returned
    session,         \* per call: "none", "open" or "closed"
    io,              \* per call: the relay steps attempted, with their outcomes
    transmitted,     \* per call: the messages the relay accepted
    cs_pc,           \* check_server_status: "loop" or "returned"
    cs_retries,      \* check_server_status: argument retries
    cs_delay,        \* check_server_status: argument delay
    cs_attempt,      \* check_server_status: loop variable attempt
    cs_log,          \* check_server_status: GETs and sleeps made so far
    cs_result        \* check_server_status: returned value

procVars == <<dunder_name, SENDER_EMAIL, EMAIL_PASSWORD, proc, exit_code>>
callVars == <<body, pc, data, fields, msg, exc, resp, session, io, transmitted>>
csVars == <<cs_pc, cs_retries, cs_delay, cs_attempt, cs_log, cs_result>>
vars == <<procVars, callVars, csVars>>

Calls == 1..MaxCalls

\* ---------------------------------------------------------------- responses
Response(status, json) == [status |-> status, json |-> json]
\* jsonify({'success': False, 'error': ...}), 400
Error400(text) == Response(400, [success |-> FALSE, error |-> <<text>>])
\* f"Error: {type(e).__name__} - {str(e)}"
Error500(e) ==
    Response(500, [success |-> FALSE, error |-> <<"Error: ", e.kind, " - ", e.detail>>])
Success200 ==
    Response(200, [success |-> TRUE, message |-> <<"Email sent successfully">>])

\* ------------------------------------------------------- Python operators
IsSubstring(sub, s) ==
    \E i \in 0..(Len(s) - Len(sub)) : SubSeq(s, i + 1, i + Len(sub)) = sub

\* `key in d` raises TypeError unless d is a container
SupportsIn(d) == d.t \in {"dict", "list", "str"}
PyIn(key, d) ==
    CASE d.t = "dict" -> key \in DOMAIN d.v
      [] d.t = "list" -> \E i \in DOMAIN d.v : d.v[i] = Str(KeyChars[key])
      [] d.t = "str" -> IsSubstring(KeyChars[key], d.v)

NotIterable == Exc("TypeError", "argument of type is not iterable")
BadIndex == Exc("TypeError", "indices must be integers")
\* data['name'] on a dict without the key
MissingKey == Exc("KeyError", "key")
BadRequest == Exc("BadRequest", "400 Bad Request: Failed to decode JSON object")

\* ------------------------------------------------------------------ start-up
CallsIdle ==
    /\ pc = [w \in Calls |-> "request"]
    /\ data = [w \in Calls |-> None_]
    /\ fields = [w \in Calls |-> None_]
    /\ msg = [w \in Calls |-> None_]
    /\ exc = [w \in Calls |-> None_]
    /\ resp = [w \in Calls |-> None_]
    /\ session = [w \in Calls |-> "none"]
    /\ io = [w \in Calls |-> <<>>]
    /\ transmitted = [w \in Calls |-> <<>>]

CheckNotCalled ==
    /\ cs_pc = "notcalled"
    /\ cs_retries = 0
    /\ cs_delay = 0
    /\ cs_attempt = 0
    /\ cs_log = <<>>
    /\ cs_result = None_

\* app.py has been loaded: the environment is read, nothing is served yet.
\* One request will be sent to the server once it serves.
Init ==
    /\ dunder_name \in {"__main__", "app"}
    /\ SENDER_EMAIL \in EnvAddresses
    /\ EMAIL_PASSWORD \in EnvPasswords
    /\ proc = "loaded"
    /\ exit_code = None_
    /\ \E b \in CoreBodies : body = [w \in Calls |-> IF w = 1 THEN b ELSE NoRequest]
    /\ CallsIdle
    /\ CheckNotCalled

\* mutant: the script starts serving without looking at the configuration
Main_NoCheck ==
    /\ proc = "loaded"
    /\ dunder_name = "__main__"
    /\ proc' = "serving"
    /\ UNCHANGED <<dunder_name, SENDER_EMAIL, EMAIL_PASSWORD, exit_code, callVars, csVars>>

\* if __name__ == '__main__': check the configuration, then app.run
Main ==
    /\ proc = "loaded"
    /\ dunder_name = "__main__"
    /\ IF ~(Truthy(SENDER_EMAIL) /\ Truthy(EMAIL_PASSWORD))
       THEN proc' = "exited" /\ exit_code' = PyInt(1)
       ELSE proc' = "serving" /\ exit_code' = exit_code
    /\ UNCHANGED <<dunder_name, SENDER_EMAIL, EMAIL_PASSWORD, callVars, csVars>>

\* app.py imported by a WSGI server (flask run, gunicorn app:app): the
\* __main__ block is skipped and the server dispatches requests to app.
Imported ==
    /\ proc = "loaded"
    /\ dunder_name # "__main__"
    /\ proc' = "serving"
    /\ UNCHANGED <<dunder_name, SENDER_EMAIL, EMAIL_PASSWORD, exit_code, callVars, csVars>>

\* ------------------------------------------------------------------ contact()
Log(w, step, outcome) ==
    [io EXCEPT ![w] = Append(@, [step |-> step, outcome |-> outcome])]
Outcome(e) == IF e = None_ THEN "ok" ELSE e.kind

\* data = request.get_json()
GetJson(w) ==
    /\ proc = "serving"
    /\ pc[w] = "request"
    /\ body[w] # NoRequest
    /\ IF body[w] = InvalidJson
       THEN /\ exc' = [exc EXCEPT ![w] = BadRequest]
            /\ pc' = [pc EXCEPT ![w] = "except"]
            /\ data' = data
       ELSE /\ data' = [data EXCEPT ![w] = body[w]]
            /\ pc' = [pc EXCEPT ![w] = "required"]
            /\ exc' = exc
    /\ UNCHANGED <<procVars, csVars, body, fields, msg, resp, session, io, transmitted>>

\* mutant: any() in place of all()
CheckRequired_Any(w) ==
    /\ proc = "serving"
    /\ pc[w] = "required"
    /\ IF ~SupportsIn(data[w])
       THEN /\ exc' = [exc EXCEPT ![w] = NotIterable]
            /\ pc' = [pc EXCEPT ![w] = "except"]
            /\ resp' = resp
       ELSE IF ~(\E i \in DOMAIN required_fields : PyIn(required_fields[i], data[w]))
       THEN /\ resp' = [resp EXCEPT ![w] = Error400("Missing required fields")]
            /\ pc' = [pc EXCEPT ![w] = "done"]
            /\ exc' = exc
       ELSE /\ pc' = [pc EXCEPT ![w] = "sanitize"]
            /\ UNCHANGED <<exc, resp>>
    /\ UNCHANGED <<procVars, csVars, body, data, fields, msg, session, io, transmitted>>

\* if not all(field in data for field in required_fields): return ..., 400
CheckRequired(w) ==
    /\ proc = "serving"
    /\ pc[w] = "required"
    /\ IF ~SupportsIn(data[w])
       THEN /\ exc' = [exc EXCEPT ![w] = NotIterable]
            /\ pc' = [pc EXCEPT ![w] = "except"]
            /\ resp' = resp
       ELSE IF ~(\A i \in DOMAIN required_fields : PyIn(required_fields[i], data[w]))
       THEN /\ resp' = [resp EXCEPT ![w] = Error400("Missing required fields")]
            /\ pc' = [pc EXCEPT ![w] = "done"]
            /\ exc' = exc
       ELSE /\ pc' = [pc EXCEPT ![w] = "sanitize"]
            /\ UNCHANGED <<exc, resp>>
    /\ UNCHANGED <<procVars, csVars, body, data, fields, msg, session, io, transmitted>>

\* name = sanitize_input(data['name']) ... message = sanitize_input(data['message'])
Sanitize(w) ==
    /\ proc = "serving"
    /\ pc[w] = "sanitize"
    /\ IF data[w].t # "dict"
       THEN /\ exc' = [exc EXCEPT ![w] = BadIndex]
            /\ pc' = [pc EXCEPT ![w] = "except"]
            /\ fields' = fields
       ELSE IF ~(Keys \subseteq DOMAIN data[w].v)
       THEN /\ exc' = [exc EXCEPT ![w] = MissingKey]
            /\ pc' = [pc EXCEPT ![w] = "except"]
            /\ fields' = fields
       ELSE /\ fields' = [fields EXCEPT ![w] =
                            [k \in Keys |-> sanitize_input(data[w].v[k])]]
            /\ pc' = [pc EXCEPT ![w] = "nonempty"]
            /\ exc' = exc
    /\ UNCHANGED <<procVars, csVars, body, data, msg, resp, session, io, transmitted>>

\* if not all([name, email, subject, message]): return ..., 400
CheckNonEmpty(w) ==
    /\ proc = "serving"
    /\ pc[w] = "nonempty"
    /\ IF ~(\A k \in Keys : fields[w][k] # <<>>)
       THEN /\ resp' = [resp EXCEPT ![w] = Error400("All fields must not be empty")]
            /\ pc' = [pc EXCEPT ![w] = "done"]
       ELSE /\ pc' = [pc EXCEPT ![w] = "email"]
            /\ resp' = resp
    /\ UNCHANGED <<procVars, csVars, body, data, fields, msg, exc, session, io, transmitted>>

\* mutant: the relay session is opened before the address is validated
CheckEmail_ConnectFirst(w) ==
    /\ proc = "serving"
    /\ pc[w] = "email"
    /\ session' = [session EXCEPT ![w] = "open"]
    /\ io' = Log(w, "connect", "ok")
    /\ IF ~validate_email(fields[w].email)
       THEN /\ resp' = [resp EXCEPT ![w] = Error400("Invalid email format")]
            /\ pc' = [pc EXCEPT ![w] = "done"]
       ELSE /\ pc' = [pc EXCEPT ![w] = "compose"]
            /\ resp' = resp
    /\ UNCHANGED <<procVars, csVars, body, data, fields, msg, exc, transmitted>>

\* if not validate_email(email): return ..., 400
CheckEmail(w) ==
    /\ proc = "serving"
    /\ pc[w] = "email"
    /\ IF ~validate_email(fields[w].email)
       THEN /\ resp' = [resp EXCEPT ![w] = Error400("Invalid email format")]
            /\ pc' = [pc EXCEPT ![w] = "done"]
       ELSE /\ pc' = [pc EXCEPT ![w] = "compose"]
            /\ resp' = resp
    /\ UNCHANGED <<procVars, csVars, body, data, fields, msg, exc, session, io, transmitted>>

\* msg = MIMEMultipart(); msg['From'], msg['To'], msg['Subject']; msg.attach(body).
\* Body stands for the text built from the four values (its timestamp is left out).
ComposeMessage(w) ==
    [From |-> SENDER_EMAIL,
     To |-> SENDER_EMAIL,
     Subject |-> <<"Portfolio Contact: ">> \o fields[w].subject,
     Body |-> fields[w]]

Compose(w) ==
    /\ proc = "serving"
    /\ pc[w] = "compose"
    /\ msg' = [msg EXCEPT ![w] = ComposeMessage(w)]
    /\ pc' = [pc EXCEPT ![w] = "connect"]
    /\ UNCHANGED <<procVars, csVars, body, data, fields, exc, resp, session, io, transmitted>>

\* with smtplib.SMTP(SMTP_SERVER, SMTP_PORT) as server: the constructor connects;
\* when it raises there is no session and the with block is never entered.
Connect(w) ==
    /\ proc = "serving"
    /\ pc[w] = "connect"
    /\ \E e \in {None_} \cup ConnectErrors :
          /\ io' = Log(w, "connect", Outcome(e))
          /\ IF e = None_
             THEN /\ session' = [session EXCEPT ![w] = "open"]
                  /\ pc' = [pc EXCEPT ![w] = "starttls"]
                  /\ exc' = exc
             ELSE /\ exc' = [exc EXCEPT ![w] = e]
                  /\ pc' = [pc EXCEPT ![w] = "except"]
                  /\ session' = session
    /\ UNCHANGED <<procVars, csVars, body, data, fields, msg, resp, transmitted>>

\* server.starttls(); an exception leaves the with block through __exit__
StartTls(w) ==
    /\ proc = "serving"
    /\ pc[w] = "starttls"
    /\ \E e \in {None_} \cup StartTlsErrors :
          /\ io' = Log(w, "starttls", Outcome(e))
          /\ exc' = [exc EXCEPT ![w] = e]
          /\ pc' = [pc EXCEPT ![w] = IF e = None_ THEN "login" ELSE "exit"]
    /\ UNCHANGED <<procVars, csVars, body, data, fields, msg, resp, session, transmitted>>

\* server.login(SENDER_EMAIL, EMAIL_PASSWORD)
Login(w) ==
    /\ proc = "serving"
    /\ pc[w] = "login"
    /\ \E e \in {None_} \cup LoginErrors :
          /\ io' = Log(w, "login", Outcome(e))
          /\ exc' = [exc EXCEPT ![w] = e]
          /\ pc' = [pc EXCEPT ![w] = IF e = None_ THEN "send" ELSE "exit"]
    /\ UNCHANGED <<procVars, csVars, body, data, fields, msg, resp, session, transmitted>>

\* server.send_message(msg): the relay accepts the message or the call raises
SendMessage(w) ==
    /\ proc = "serving"
    /\ pc[w] = "send"
    /\ \E e \in {None_} \cup SendErrors :
          /\ io' = Log(w, "send", Outcome(e))
          /\ exc' = [exc EXCEPT ![w] = e]
          /\ transmitted' =
                IF e = None_
                THEN [transmitted EXCEPT ![w] = Append(@, msg[w])]
                ELSE transmitted
          /\ pc' = [pc EXCEPT ![w] = "exit"]
    /\ UNCHANGED <<procVars, csVars, body, data, fields, msg, resp, session>>

\* mutant: the session is closed by a plain server.quit() after the send, which
\* an exception in the block skips
ExitWith_NoCloseOnError(w) ==
    /\ proc = "serving"
    /\ pc[w] = "exit"
    /\ \E reply \in QuitReplies :
          /\ io' = IF exc[w] = None_
                   THEN Log(w, "quit", IF reply = "other" THEN QuitError.kind ELSE "ok")
                   ELSE io
          /\ session' = IF exc[w] = None_
                        THEN [session EXCEPT ![w] = "closed"]
                        ELSE session
          /\ exc' = IF exc[w] = None_ /\ reply = "other"
                    THEN [exc EXCEPT ![w] = QuitError]
                    ELSE exc
          /\ pc' = [pc EXCEPT ![w] =
                      IF exc'[w] = None_ THEN "return" ELSE "except"]
    /\ UNCHANGED <<procVars, csVars, body, data, fields, msg, resp, transmitted>>

\* end of the with block, normal or by exception: SMTP.__exit__ sends QUIT,
\* raises SMTPResponseException on a reply other than 221, ignores a dropped
\* connection, and closes the socket in every case.
ExitWith(w) ==
    /\ proc = "serving"
    /\ pc[w] = "exit"
    /\ \E reply \in QuitReplies :
          /\ io' = Log(w, "quit", IF reply = "other" THEN QuitError.kind ELSE "ok")
          /\ session' = [session EXCEPT ![w] = "closed"]
          /\ exc' = IF reply = "other" THEN [exc EXCEPT ![w] = QuitError] ELSE exc
          /\ pc' = [pc EXCEPT ![w] =
                      IF exc'[w] = None_ THEN "return" ELSE "except"]
    /\ UNCHANGED <<procVars, csVars, body, data, fields, msg, resp, transmitted>>

\* return jsonify({'success': True, 'message': 'Email sent successfully'}), 200
Return200(w) ==
    /\ proc = "serving"
    /\ pc[w] = "return"
    /\ resp' = [resp EXCEPT ![w] = Success200]
    /\ pc' = [pc EXCEPT ![w] = "done"]
    /\ UNCHANGED <<procVars, csVars, body, data, fields, msg, exc, session, io, transmitted>>

\* mutant: a failed delivery is attempted once more before the error is reported
Except_Retry(w) ==
    /\ proc = "serving"
    /\ pc[w] = "except"
    /\ IF msg[w] # None_ /\ session[w] # "open"
          /\ Cardinality({i \in DOMAIN io[w] : io[w][i].step = "connect"}) < 2
       THEN /\ pc' = [pc EXCEPT ![w] = "connect"]
            /\ exc' = [exc EXCEPT ![w] = None_]
            /\ resp' = resp
       ELSE /\ resp' = [resp EXCEPT ![w] = Error500(exc[w])]
            /\ pc' = [pc EXCEPT ![w] = "done"]
            /\ exc' = exc
    /\ UNCHANGED <<procVars, csVars, body, data, fields, msg, session, io, transmitted>>

\* except Exception as e: return jsonify({'success': False, 'error': ...}), 500
Except(w) ==
    /\ proc = "serving"
    /\ pc[w] = "except"
    /\ resp' = [resp EXCEPT ![w] = Error500(exc[w])]
    /\ pc' = [pc EXCEPT ![w] = "done"]
    /\ UNCHANGED <<procVars, csVars, body, data, fields, msg, exc, session, io, transmitted>>

Handle(w) ==
    \/ GetJson(w)
    \/ CheckRequired(w)
    \/ Sanitize(w)
    \/ CheckNonEmpty(w)
    \/ CheckEmail(w)
    \/ Compose(w)
    \/ Connect(w)
    \/ StartTls(w)
    \/ Login(w)
    \/ SendMessage(w)
    \/ ExitWith(w)
    \/ Return200(w)
    \/ Except(w)

NextCalls == \E w \in Calls : Handle(w)

Next == Main \/ Imported \/ NextCalls

\* The server from start-up on.
Spec == Init /\ [][Next]_vars

\* MaxCalls requests handled concurrently by a server that was started as a
\* script with its configuration set.
InitConcurrent ==
    /\ dunder_name = "__main__"
    /\ SENDER_EMAIL = OperatorAddress
    /\ EMAIL_PASSWORD = OperatorPassword
    /\ proc = "serving"
    /\ exit_code = None_
    /\ body \in [Calls -> CoreBodies]
    /\ CallsIdle
    /\ CheckNotCalled

SpecConcurrent == InitConcurrent /\ [][NextCalls]_vars

\* One request drawn from the wide input set, handled by a server that was
\* started as a script with its configuration set.
InitInputs ==
    /\ dunder_name = "__main__"
    /\ SENDER_EMAIL = OperatorAddress
    /\ EMAIL_PASSWORD = OperatorPassword
    /\ proc = "serving"
    /\ exit_code = None_
    /\ \E b \in WideBodies : body = [w \in Calls |-> IF w = 1 THEN b ELSE NoRequest]
    /\ CallsIdle
    /\ CheckNotCalled

SpecInputs == InitInputs /\ [][NextCalls]_vars

\* ------------------------------------------------------ check_server_status
HttpStatuses == {200, 404, 500}
\* what requests.get(..., timeout=5) does: returns a response or raises
GetOutcomes ==
    {[t |-> "response", status |-> st] : st \in HttpStatuses}
    \cup {[t |-> "raise", kind |-> k] :
             k \in {"ConnectionError", "ConnectTimeout", "ReadTimeout", "ValueError"}}
\* isinstance(e, requests.exceptions.ConnectionError): ConnectTimeout derives
\* from ConnectionError, ReadTimeout does not
IsConnectionError(o) == o.t = "raise" /\ o.kind \in {"ConnectionError", "ConnectTimeout"}
Delays == {0, 2}

InitCheck ==
    /\ dunder_name = "__main__"
    /\ SENDER_EMAIL = OperatorAddress
    /\ EMAIL_PASSWORD = OperatorPassword
    /\ proc = "loaded"
    /\ exit_code = None_
    /\ body = [w \in Calls |-> NoRequest]
    /\ CallsIdle
    /\ cs_pc = "loop"
    /\ cs_retries \in 0..MaxRetries
    /\ cs_delay \in Delays
    /\ cs_attempt = 0
    /\ cs_log = <<>>
    /\ cs_result = None_

GetEvent(o) == [ev |-> "GET", outcome |-> o]
SleepEvent(d) == [ev |-> "sleep", secs |-> d]

\* mutant: every exception is retried, not only ConnectionError
Attempt_RetryAll(o) ==
    /\ cs_pc = "loop"
    /\ cs_attempt < cs_retries
    /\ IF o.t = "response"
       THEN /\ cs_result' = Bool(TRUE)
            /\ cs_pc' = "returned"
            /\ cs_log' = Append(cs_log, GetEvent(o))
            /\ cs_attempt' = cs_attempt
       ELSE IF cs_attempt < cs_retries - 1
            THEN /\ cs_log' = cs_log \o <<GetEvent(o), SleepEvent(cs_delay)>>
                 /\ cs_attempt' = cs_attempt + 1
                 /\ UNCHANGED <<cs_pc, cs_result>>
            ELSE /\ cs_result' = Bool(FALSE)
                 /\ cs_pc' = "returned"
                 /\ cs_log' = Append(cs_log, GetEvent(o))
                 /\ cs_attempt' = cs_attempt
    /\ UNCHANGED <<procVars, callVars, cs_retries, cs_delay>>

\* one iteration of `for attempt in range(retries)`
Attempt(o) ==
    /\ cs_pc = "loop"
    /\ cs_attempt < cs_retries
    /\ IF o.t = "response"
       THEN /\ cs_result' = Bool(TRUE)
            /\ cs_pc' = "returned"
            /\ cs_log' = Append(cs_log, GetEvent(o))
            /\ cs_attempt' = cs_attempt
       ELSE IF IsConnectionError(o)
       THEN IF cs_attempt < cs_retries - 1
            THEN /\ cs_log' = cs_log \o <<GetEvent(o), SleepEvent(cs_delay)>>
                 /\ cs_attempt' = cs_attempt + 1
                 /\ UNCHANGED <<cs_pc, cs_result>>
            ELSE /\ cs_result' = Bool(FALSE)
                 /\ cs_pc' = "returned"
                 /\ cs_log' = Append(cs_log, GetEvent(o))
                 /\ cs_attempt' = cs_attempt
       ELSE /\ cs_result' = Bool(FALSE)
            /\ cs_pc' = "returned"
            /\ cs_log' = Append(cs_log, GetEvent(o))
            /\ cs_attempt' = cs_attempt
    /\ UNCHANGED <<procVars, callVars, cs_retries, cs_delay>>

\* range(retries) is exhausted without a return: the function returns None
LoopEnd ==
    /\ cs_pc = "loop"
    /\ cs_attempt >= cs_retries
    /\ cs_result' = None_
    /\ cs_pc' = "returned"
    /\ UNCHANGED <<procVars, callVars, cs_retries, cs_delay, cs_attempt, cs_log>>

NextCheck == (\E o \in GetOutcomes : Attempt(o)) \/ LoopEnd

\* check_server_status runs to its end: the GET has a timeout and sleep returns
SpecCheck == InitCheck /\ [][NextCheck]_vars /\ WF_vars(NextCheck)

\* ================================================================== claims
Done(w) == pc[w] = "done"
IsObject(b) == b.t = "dict"
HasAllKeys(b) == Keys \subseteq DOMAIN b.v
\* the value is empty once trimmed: not a string, or whitespace only
Blank(val) == val.t # "str" \/ \A i \in DOMAIN val.v : val.v[i] \in Whitespace
\* s without its leading and trailing whitespace
Trimmed(s) ==
    LET keep == {i \in DOMAIN s : s[i] \notin Whitespace}
    IN IF keep = {} THEN <<>>
       ELSE SubSeq(s, CHOOSE i \in keep : \A j \in keep : i <= j,
                      CHOOSE i \in keep : \A j \in keep : i >= j)
\* the whole of s is local-part "@" domain "." letters, with two letters or more
FullMatch(s) ==
    \E i \in 1..Len(s) :
       /\ i + 1 <= Len(s)
       /\ s[i + 1] = "@"
       /\ \A n \in 1..i : s[n] \in LocalChars
       /\ \E j \in (i + 2)..Len(s) :
             /\ j + 3 <= Len(s)
             /\ s[j + 1] = "."
             /\ \A n \in (i + 2)..j : s[n] \in DomainChars
             /\ \A n \in (j + 2)..Len(s) : s[n] \in Letters
\* the payload passes the three validation checks
ValidPayload(b) ==
    /\ IsObject(b)
    /\ HasAllKeys(b)
    /\ \A k \in Keys : ~Blank(b.v[k])
    /\ FullMatch(Trimmed(b.v["email"].v))
Steps(w, step) == {i \in DOMAIN io[w] : io[w][i].step = step}
StepOk(w, step) == \E i \in Steps(w, step) : io[w][i].outcome = "ok"
StepFailed(w, step) == \E i \in Steps(w, step) : io[w][i].outcome # "ok"
DeliverySteps == {"connect", "starttls", "login", "send"}

\* C1: a finished call answered 200 with the confirmation payload exactly when
\* its payload passed the three validation checks and connect, starttls, login
\* and send_message all succeeded; and a 200 call transmitted exactly one
\* message, from and to the operator address, with subject
\* "Portfolio Contact: " + the trimmed subject.
C1_SuccessIffDelivered ==
    \A w \in Calls : Done(w) =>
       /\ (resp[w].status = 200) <=>
             (ValidPayload(body[w]) /\ \A st \in DeliverySteps : StepOk(w, st))
       /\ resp[w].status = 200 =>
             /\ resp[w] = Success200
             /\ Len(transmitted[w]) = 1
             /\ transmitted[w][1].From = SENDER_EMAIL
             /\ transmitted[w][1].To = SENDER_EMAIL
             /\ transmitted[w][1].Subject =
                   <<"Portfolio Contact: ">> \o Trimmed(body[w].v["subject"].v)

\* The statement of C1 with the QUIT of the session's close counted among the
\* relay steps: the only calls that break C1 are those whose QUIT is refused.
C1_HoldsWhenQuitAccepted ==
    \A w \in Calls : Done(w) =>
       /\ (resp[w].status = 200) <=>
             (/\ ValidPayload(body[w])
              /\ \A st \in DeliverySteps \cup {"quit"} : StepOk(w, st))
       /\ resp[w].status = 200 =>
             /\ resp[w] = Success200
             /\ Len(transmitted[w]) = 1
             /\ transmitted[w][1].From = SENDER_EMAIL
             /\ transmitted[w][1].To = SENDER_EMAIL
             /\ transmitted[w][1].Subject =
                   <<"Portfolio Contact: ">> \o Trimmed(body[w].v["subject"].v)

\* C2: a finished call whose payload is a JSON object lacking one of the four
\* keys answered 400 "Missing required fields", whatever the other values.
C2_MissingKeyIs400 ==
    \A w \in Calls : (Done(w) /\ IsObject(body[w]) /\ ~HasAllKeys(body[w])) =>
       resp[w] = Error400("Missing required fields")

\* a payload with a key missing and a non-string value under another key was
\* answered
C2_Witness ==
    \E w \in Calls :
       /\ Done(w)
       /\ IsObject(body[w])
       /\ "message" \notin DOMAIN body[w].v
       /\ "name" \in DOMAIN body[w].v
       /\ body[w].v["name"] = PyInt(42)
       /\ resp[w].status = 400

\* C3: a finished call whose body is not a JSON object (invalid JSON, null, a
\* list, a string, a number) answered 400, never 200 or 500.
C3_NonObjectIs400 ==
    \A w \in Calls : (Done(w) /\ ~IsObject(body[w])) => resp[w].status = 400

\* C4: a finished call whose payload has the four keys and a value that is
\* empty once sanitized (blank string or non-string) answered 400
\* "All fields must not be empty", also when the email value is malformed.
C4_BlankFieldIs400 ==
    \A w \in Calls :
       (/\ Done(w)
        /\ IsObject(body[w])
        /\ HasAllKeys(body[w])
        /\ \E k \in Keys : Blank(body[w].v[k])) =>
       resp[w] = Error400("All fields must not be empty")

\* a payload with a whitespace-only field and a malformed email was answered
C4_Witness ==
    \E w \in Calls :
       /\ Done(w)
       /\ IsObject(body[w])
       /\ HasAllKeys(body[w])
       /\ body[w].v["email"] = Str(S_AtBC)
       /\ body[w].v["subject"] = Str(<<" ", "\t">>)
       /\ resp[w].status = 400

\* C5: a finished call whose four sanitized values are non-empty answered 400
\* "Invalid email format" exactly when the sanitized email is not, over its
\* full length, local-part "@" domain "." and two or more letters; so
\* "not-an-email", "a@b" and "a@b.c" are rejected and "a@b.co" passes the check.
C5_BadEmailIs400 ==
    \A w \in Calls :
       (/\ Done(w)
        /\ IsObject(body[w])
        /\ HasAllKeys(body[w])
        /\ \A k \in Keys : ~Blank(body[w].v[k])) =>
       /\ fields[w].email = Trimmed(body[w].v["email"].v)
       /\ ~FullMatch(fields[w].email) => resp[w] = Error400("Invalid email format")
       /\ FullMatch(fields[w].email) => resp[w].status # 400
       /\ fields[w].email \in {S_NotAnEmail, S_AtB, S_AtBC} => resp[w].status = 400
       /\ fields[w].email = S_AtBCo => resp[w].status # 400

\* "a@b.c", sent with the other three fields valid, was rejected
C5_Witness ==
    \E w \in Calls :
       /\ Done(w)
       /\ IsObject(body[w])
       /\ HasAllKeys(body[w])
       /\ body[w].v["email"] = Str(S_AtBC)
       /\ resp[w] = Error400("Invalid email format")
       /\ \A k \in Keys \ {"email"} : body[w].v[k] = Str(GoodValue[k])

AllErrors ==
    ConnectErrors \cup StartTlsErrors \cup LoginErrors \cup SendErrors \cup {QuitError}

C7_SessionClosedOnReturn ==
    \A w \in Calls :
       (pc[w] \in {"return", "except", "done"} \/ resp[w] # None_) =>
          session[w] # "open"

\* send_message raised in an open session and the call answered 500 with the
\* session closed
C7_Witness ==
    \E w \in Calls :
       /\ Done(w)
       /\ StepFailed(w, "send")
       /\ session[w] = "closed"
       /\ resp[w].status = 500

\* C8 as stated: in every state in which contact() handles a request, the
\* operator address and the operator credential are both set.
C8_HandlingImpliesConfigured ==
    (\E w \in Calls : pc[w] # "request") =>
       (Truthy(SENDER_EMAIL) /\ Truthy(EMAIL_PASSWORD))

\* C8 amended: when app.py is run as a script, an unset operator address or
\* credential makes the process exit with code 1 and never serve, so every
\* request a script-started server handles finds both values set.
C8_ScriptFailsFast ==
    dunder_name = "__main__" =>
       /\ proc = "serving" => (Truthy(SENDER_EMAIL) /\ Truthy(EMAIL_PASSWORD))
       /\ proc = "exited" =>
             /\ exit_code = PyInt(1)
             /\ ~(Truthy(SENDER_EMAIL) /\ Truthy(EMAIL_PASSWORD))
       /\ (\E w \in Calls : pc[w] # "request") => proc = "serving"

\* the script was started with an empty operator address and has exited
C8_Witness ==
    /\ dunder_name = "__main__"
    /\ SENDER_EMAIL = Str(<<>>)
    /\ proc = "exited"
    /\ exit_code = PyInt(1)

\* C9: a call opens at most one relay session, and only with a payload that
\* passed the three validation checks; a call answered 400 opened no session,
\* attempted no relay step and transmitted nothing; and two finished calls with
\* the same payload and the same relay outcomes have the same response and
\* transmissions, whatever the other calls were sent.
C9_SessionOnlyAfterValidation ==
    /\ \A w \in Calls :
          /\ Cardinality(Steps(w, "connect")) <= 1
          /\ (session[w] # "none" \/ io[w] # <<>>) => ValidPayload(body[w])
          /\ (resp[w] # None_ /\ resp[w].status = 400) =>
                (session[w] = "none" /\ io[w] = <<>> /\ transmitted[w] = <<>>)
    /\ \A w1, w2 \in Calls :
          (Done(w1) /\ Done(w2) /\ body[w1] = body[w2] /\ io[w1] = io[w2]) =>
             (resp[w1] = resp[w2] /\ transmitted[w1] = transmitted[w2])

\* one call was answered 400 for its email while another, running at the same
\* time, holds an open session
C9_Witness ==
    \E w1, w2 \in Calls :
       /\ Done(w1)
       /\ resp[w1] = Error400("Invalid email format")
       /\ session[w2] = "open"
       /\ pc[w2] = "login"

GetCount == Cardinality({i \in DOMAIN cs_log : cs_log[i].ev = "GET"})
SleepCount == Cardinality({i \in DOMAIN cs_log : cs_log[i].ev = "sleep"})
LastEvent == cs_log[Len(cs_log)]
\* the outcomes of the GETs, in order
RECURSIVE GetOutcomesOf(_)
GetOutcomesOf(log) ==
    IF log = <<>> THEN <<>>
    ELSE IF Head(log).ev = "GET"
         THEN <<Head(log).outcome>> \o GetOutcomesOf(Tail(log))
         ELSE GetOutcomesOf(Tail(log))

C10_Bounded ==
    cs_retries >= 1 =>
       /\ GetCount <= cs_retries
       /\ SleepCount <= cs_retries - 1
       /\ cs_pc = "returned" =>
             LET outs == GetOutcomesOf(cs_log)
                 n == Len(outs)
             IN /\ n >= 1
                /\ LastEvent.ev = "GET"
                /\ SleepCount = n - 1
                /\ \A i \in 1..(n - 1) : IsConnectionError(outs[i])
                /\ cs_result \in {Bool(TRUE), Bool(FALSE)}
                /\ cs_result = Bool(TRUE) <=> outs[n].t = "response"
                /\ IsConnectionError(outs[n]) => n = cs_retries

\* C10: called with retries >= 1, check_server_status returns; it makes at
\* most retries GETs and retries-1 sleeps; it returns True at the first GET
\* that gets a response of any status, False after retries connection errors
\* in a row, and False at the first GET that raises anything else; every GET
\* before the last ended in a connection error.
C10_TerminatesBounded ==
    /\ []C10_Bounded
    /\ (cs_retries >= 1) ~> (cs_pc = "returned")

\* two connection errors were followed by a 404 response and True was returned
C10_Witness ==
    /\ cs_pc = "returned"
    /\ cs_retries >= 3
    /\ GetCount = 3
    /\ SleepCount = 2
    /\ LastEvent.outcome = [t |-> "response", status |-> 404]
    /\ cs_result = Bool(TRUE)

====
